---- MODULE Spec2Model ----
\* Saarthi Fund: the deposit ledger, loan requests, payment application and
\* interest distribution, modelled from the Express/Prisma route handlers and
\* the PostgreSQL schema (tables, CHECK constraints and triggers) they run on.
\*
\* Every handler is a sequence of awaited database statements.  Each awaited
\* statement is one step of the client that runs the handler, so that the
\* statements of two requests interleave exactly as two HTTP requests on two
\* pooled connections do.  An INSERT whose table carries a BEFORE INSERT
\* trigger is two steps: the trigger's reads (a READ COMMITTED snapshot) and
\* the row becoming visible at commit.
\*
\* Money: deposit amounts are whole rupees; loan money is in paise (1/100).
EXTENDS Integers, Sequences, FiniteSets, TLC

VARIABLES
    deposits,       \* table deposits: sequence of rows, the index is the row id
    monthly_pool_snapshot,        \* table: set of rows, fund_month is unique
    monthly_interest,             \* table: sequence of rows, the index is the id
    member_interest_shares,       \* table: set of rows
    emergency_fund,               \* the single row of table emergency_fund
    emergency_fund_transactions,  \* table: sequence of rows in creation order
    loans,             \* table loans: sequence of rows, the index is the id
    pre_emi_interest,  \* table pre_emi_interest: sequence of rows
    emi_schedule,      \* table emi_schedule: sequence of rows
    payments,          \* table payments: sequence of rows
    interest_brackets, \* table interest_brackets: sequence of rows, the index is the id
    fund_settings,     \* table fund_settings: setting_key -> setting_value
    pc,             \* per client: the statement its handler runs next
    req,            \* per client: the request body of the handler it runs
    loc,            \* per client: the handler's local variables
    resp            \* per client: the last response sent

interestTables == <<monthly_pool_snapshot, monthly_interest, member_interest_shares,
                    emergency_fund, emergency_fund_transactions>>

loanTables == <<loans, pre_emi_interest, emi_schedule, payments>>

vars == <<fund_settings, deposits, interest_brackets, interestTables, loanTables, pc, req, loc, resp>>

\* ---------------------------------------------------------------- bounds
NumClients == 2
MaxDeposits == 2
MaxInterestEntries == 2
MaxFundMonth == 1
MaxLoans == 3
MaxStarts == 2
MaxEmiMonths == 2
MaxPayments == 3
MaxBrackets == 7

Clients == 1..NumClients
Users == {"u1", "u2"}

\* ------------------------------------------------- fund_settings defaults
deposit_multiple == 300
min_monthly_deposit == 300

\* ---------------------------------------------------------------- helpers
RECURSIVE SumSeq(_)
SumSeq(s) == IF s = <<>> THEN 0 ELSE Head(s) + SumSeq(Tail(s))

RECURSIVE SumOver(_, _)
\* sum of f[x] for x in the finite set S
SumOver(f, S) ==
    IF S = {} THEN 0
    ELSE LET x == CHOOSE y \in S : TRUE IN f[x] + SumOver(f, S \ {x})

MinNum(a, b) == IF a <= b THEN a ELSE b

MaxNum(a, b) == IF a >= b THEN a ELSE b

\* a nullable column or an optional field: <<>> is null, <<x>> is the value x
Null == <<>>

RECURSIVE MulDivQR(_, _, _)
\* <<q, r>> with a * b = q * c + r and 0 <= r < c, for a, b >= 0 and c > 0,
\* computed without forming the product a * b
MulDivQR(a, b, c) ==
    IF b = 0 THEN <<0, 0>>
    ELSE LET h == MulDivQR(a, b \div 2, c)
             r2 == 2 * h[2] + (b % 2) * (a % c)
         IN  <<2 * h[1] + (b % 2) * (a \div c) + r2 \div c, r2 % c>>

\* Math.round(a * b / c): halves round towards plus infinity
MulDivRound(a, b, c) ==
    IF a >= 0
    THEN LET qr == MulDivQR(a, b, c) IN qr[1] + (IF 2 * qr[2] >= c THEN 1 ELSE 0)
    ELSE LET qr == MulDivQR(-a, b, c) IN -(qr[1] + (IF 2 * qr[2] > c THEN 1 ELSE 0))

RECURSIVE Pow(_, _)
Pow(x, n) == IF n = 0 THEN 1 ELSE x * Pow(x, n - 1)

RECURSIVE Perms(_)
Perms(S) ==
    IF S = {} THEN {<<>>}
    ELSE UNION {{<<x>> \o t : t \in Perms(S \ {x})} : x \in S}

Abs(x) == IF x < 0 THEN -x ELSE x

MaxOf(S) == CHOOSE x \in S : \A y \in S : y <= x

\* JavaScript's remainder: the sign of the dividend, |a| mod |b|
JsRem(a, b) == IF a < 0 THEN -(Abs(a) % Abs(b)) ELSE a % Abs(b)

NoReq == [op |-> "none"]
NoLoc == [none |-> TRUE]
NoResp == [status |-> 0, error |-> "none"]

\* res.status(status).json(...): the handler ends and its locals are gone
Respond(p, status, error) ==
    /\ pc' = [pc EXCEPT ![p] = "idle"]
    /\ resp' = [resp EXCEPT ![p] = [status |-> status, error |-> error]]
    /\ req' = [req EXCEPT ![p] = NoReq]
    /\ loc' = [loc EXCEPT ![p] = NoLoc]

\* the handler moves on to its next awaited statement
Goto(p, label, locals) ==
    /\ pc' = [pc EXCEPT ![p] = label]
    /\ loc' = [loc EXCEPT ![p] = locals]
    /\ UNCHANGED <<req, resp>>

\* a request arrives at an idle client
Receive(p, label, body) ==
    /\ pc[p] = "idle"
    /\ pc' = [pc EXCEPT ![p] = label]
    /\ req' = [req EXCEPT ![p] = body]
    /\ loc' = [loc EXCEPT ![p] = NoLoc]
    /\ resp' = [resp EXCEPT ![p] = NoResp]

\* ------------------------------------------------------- deposits (reads)
DepositIds(u) == {i \in 1..Len(deposits) : deposits[i].user_id = u}

\* prisma.deposits.aggregate({ where: { user_id }, _sum: { amount } })
UserTotal(u) == SumOver([i \in DepositIds(u) |-> deposits[i].amount], DepositIds(u))

\* rows a client has been admitted to insert and has not committed yet
Pending(p) ==
    IF req[p].op = "recordDeposit" THEN 1
    ELSE IF req[p].op = "bulkDeposits" THEN Len(req[p].deposits)
    ELSE 0

Room == MaxDeposits - Len(deposits) - SumOver([p \in Clients |-> Pending(p)], Clients)

\* ------------------------------------------- recordDeposit: POST /deposits
NotMultiple(amount, multiple) == JsRem(amount, multiple) # 0

\* the minimum rule with the boundary total turned away
BelowMinimumInclusive(newTotal, multiple, member_month) ==
    newTotal <= multiple * member_month

BelowMinimum(newTotal, multiple, member_month) == newTotal < multiple * member_month

\* validate_deposit(): MOD(NEW.amount::INT, v_multiple) != 0
TrgNotMultiple(amount) == JsRem(amount, deposit_multiple) # 0

\* validate_minimum_deposit(): v_current_total < v_required_total
TrgBelowMinimum(total, member_month) == total < min_monthly_deposit * member_month

\* deposits CHECK (amount > 0), CHECK (member_month > 0)
DepositChecksOk(row) == row.amount > 0 /\ row.member_month > 0

\* The row as the BEFORE INSERT triggers leave it, or a raise when a trigger
\* or a CHECK constraint rejects it; prior is the triggers' SUM(amount).
InsertDeposit(u, amount, member_month, prior) ==
    LET row == [user_id |-> u, amount |-> amount, member_month |-> member_month,
                cumulative_total |-> prior + amount]
    IN  IF \/ TrgNotMultiple(amount)
           \/ TrgBelowMinimum(prior + amount, member_month)
           \/ ~DepositChecksOk(row)
        THEN [raise |-> TRUE]
        ELSE [raise |-> FALSE, row |-> row]

RdBegin(p, u, amount, member_month) ==
    /\ Room >= 1
    /\ Receive(p, "rd_validate", [op |-> "recordDeposit", user_id |-> u,
                                  amount |-> amount, member_month |-> member_month])
    /\ UNCHANGED <<deposits, fund_settings, interest_brackets, interestTables, loanTables>>

\* fund_settings.findUnique('deposit_multiple') and the multiple-of check
RdValidate(p) ==
    /\ pc[p] = "rd_validate"
    /\ IF NotMultiple(req[p].amount, deposit_multiple)
       THEN Respond(p, 400, "InvalidAmount")
       ELSE Goto(p, "rd_aggregate", NoLoc)
    /\ UNCHANGED <<deposits, fund_settings, interest_brackets, interestTables, loanTables>>

\* deposits.aggregate, newTotal and the minimum rule
RdAggregate(p) ==
    /\ pc[p] = "rd_aggregate"
    /\ LET currentTotal == UserTotal(req[p].user_id)
           newTotal == currentTotal + req[p].amount
       IN  IF BelowMinimum(newTotal, deposit_multiple, req[p].member_month)
           THEN Respond(p, 400, "BelowMinimum")
           ELSE Goto(p, "rd_create", [newTotal |-> newTotal])
    /\ UNCHANGED <<deposits, fund_settings, interest_brackets, interestTables, loanTables>>

\* prisma.deposits.create: the BEFORE INSERT triggers and the CHECKs run
RdCreate(p) ==
    /\ pc[p] = "rd_create"
    /\ LET ins == InsertDeposit(req[p].user_id, req[p].amount, req[p].member_month,
                                UserTotal(req[p].user_id))
       IN  IF ins.raise
           THEN Respond(p, 500, "Failed to record deposit")
           ELSE Goto(p, "rd_commit", [newTotal |-> loc[p].newTotal, row |-> ins.row])
    /\ UNCHANGED <<deposits, fund_settings, interest_brackets, interestTables, loanTables>>

\* the inserted row becomes visible to the other connections
RdCommit(p) ==
    /\ pc[p] = "rd_commit"
    /\ deposits' = Append(deposits, loc[p].row)
    /\ UNCHANGED <<fund_settings, interest_brackets, interestTables, loanTables>>
    /\ Respond(p, 201, "none")

\* ------------------------------------ bulk import: POST /admin/bulk-deposits
\* [...deposits].sort((a, b) => a.member_month - b.member_month), stable
RECURSIVE InsertSorted(_, _)
InsertSorted(d, s) ==
    IF s = <<>> THEN <<d>>
    ELSE IF d.member_month < Head(s).member_month THEN <<d>> \o s
    ELSE <<Head(s)>> \o InsertSorted(d, Tail(s))

RECURSIVE SortByMonth(_)
SortByMonth(s) ==
    IF s = <<>> THEN <<>>
    ELSE InsertSorted(s[Len(s)], SortByMonth(SubSeq(s, 1, Len(s) - 1)))

\* the per-deposit validation loop: the first failing check answers 400
BulkInvalid(deps, multiple) ==
    \E k \in 1..Len(deps) :
        \/ deps[k].amount = 0 \/ deps[k].member_month = 0
        \/ NotMultiple(deps[k].amount, multiple)
        \/ deps[k].member_month < 1

\* prisma.$transaction([...creates]): the inserts run in order in one
\* transaction, each through the triggers, seeing the rows before it
RECURSIVE BulkInsert(_, _, _)
BulkInsert(u, deps, prior) ==
    IF deps = <<>> THEN [raise |-> FALSE, rows |-> <<>>]
    ELSE LET ins == InsertDeposit(u, Head(deps).amount, Head(deps).member_month, prior)
         IN  IF ins.raise THEN [raise |-> TRUE]
             ELSE LET rest == BulkInsert(u, Tail(deps), prior + Head(deps).amount)
                  IN  IF rest.raise THEN [raise |-> TRUE]
                      ELSE [raise |-> FALSE, rows |-> <<ins.row>> \o rest.rows]

BulkBegin(p, u, deps) ==
    /\ Room >= Len(deps)
    /\ Receive(p, "bulk_validate", [op |-> "bulkDeposits", user_id |-> u, deposits |-> deps])
    /\ UNCHANGED <<deposits, fund_settings, interest_brackets, interestTables, loanTables>>

BulkValidate(p) ==
    /\ pc[p] = "bulk_validate"
    /\ IF Len(req[p].deposits) = 0 \/ BulkInvalid(req[p].deposits, deposit_multiple)
       THEN Respond(p, 400, "InvalidDeposits")
       ELSE Goto(p, "bulk_aggregate", [sortedDeposits |-> SortByMonth(req[p].deposits)])
    /\ UNCHANGED <<deposits, fund_settings, interest_brackets, interestTables, loanTables>>

BulkAggregate(p) ==
    /\ pc[p] = "bulk_aggregate"
    /\ Goto(p, "bulk_tx", [sortedDeposits |-> loc[p].sortedDeposits,
                           runningTotal |-> UserTotal(req[p].user_id)])
    /\ UNCHANGED <<deposits, fund_settings, interest_brackets, interestTables, loanTables>>

BulkTransaction(p) ==
    /\ pc[p] = "bulk_tx"
    /\ LET tx == BulkInsert(req[p].user_id, loc[p].sortedDeposits, UserTotal(req[p].user_id))
       IN  IF tx.raise
           THEN Respond(p, 500, "Failed to import deposits")
           ELSE Goto(p, "bulk_commit", [rows |-> tx.rows])
    /\ UNCHANGED <<deposits, fund_settings, interest_brackets, interestTables, loanTables>>

BulkCommit(p) ==
    /\ pc[p] = "bulk_commit"
    /\ deposits' = deposits \o loc[p].rows
    /\ UNCHANGED <<fund_settings, interest_brackets, interestTables, loanTables>>
    /\ Respond(p, 201, "none")

\* ------------------------------- recalculate: POST /deposits/recalculate/:id
\* findMany({ where: { user_id }, orderBy: { member_month: 'asc' } }): the
\* orders the database may return; rows of one member_month come in any order
MonthOrders(ids) ==
    {o \in Perms(ids) :
        \A k \in 1..(Len(o) - 1) : deposits[o[k]].member_month <= deposits[o[k + 1]].member_month}

RECURSIVE RunningTotals(_, _)
\* the loop's runningTotal after each row of a list of rows
RunningTotals(rows, runningTotal) ==
    IF rows = <<>> THEN <<>>
    ELSE <<runningTotal + Head(rows).amount>>
         \o RunningTotals(Tail(rows), runningTotal + Head(rows).amount)

RcBegin(p, u) ==
    /\ Receive(p, "rc_find", [op |-> "recalculate", user_id |-> u])
    /\ UNCHANGED <<deposits, fund_settings, interest_brackets, interestTables, loanTables>>

RcFindMany(p) ==
    /\ pc[p] = "rc_find"
    /\ IF DepositIds(req[p].user_id) = {}
       THEN Respond(p, 200, "No deposits found for user")
       ELSE \E o \in MonthOrders(DepositIds(req[p].user_id)) :
                Goto(p, "rc_update",
                     [deposits |-> [k \in 1..Len(o) |->
                                      [id |-> o[k], amount |-> deposits[o[k]].amount,
                                       member_month |-> deposits[o[k]].member_month,
                                       cumulative_total |-> deposits[o[k]].cumulative_total]],
                      i |-> 1, runningTotal |-> 0])
    /\ UNCHANGED <<deposits, fund_settings, interest_brackets, interestTables, loanTables>>

\* one pass of the loop: runningTotal += amount; deposits.update by id
RcUpdate(p) ==
    /\ pc[p] = "rc_update"
    /\ UNCHANGED <<fund_settings, interest_brackets, interestTables, loanTables>>
    /\ LET d == loc[p].deposits[loc[p].i]
           runningTotal == loc[p].runningTotal + d.amount
       IN  /\ deposits' = [deposits EXCEPT ![d.id].cumulative_total = runningTotal]
           /\ IF loc[p].i = Len(loc[p].deposits)
              THEN Respond(p, 200, "none")
              ELSE Goto(p, "rc_update", [deposits |-> loc[p].deposits,
                                         i |-> loc[p].i + 1, runningTotal |-> runningTotal])

\* --------------------------------- createSnapshot: POST /interest/snapshots
unit_amount == 300

FundMonths == 1..MaxFundMonth

DepositUsers == {deposits[i].user_id : i \in 1..Len(deposits)}

\* Math.floor(amount / 300) per member of deposits.groupBy(user_id)
MemberUnits == [u \in DepositUsers |-> UserTotal(u) \div unit_amount]

PoolTotal == SumOver([i \in 1..Len(deposits) |-> deposits[i].amount], 1..Len(deposits))

\* a lookup that never finds the row
SnapshotOfNone(fund_month) == {}

SnapshotOf(fund_month) == {sn \in monthly_pool_snapshot : sn.fund_month = fund_month}

CsBegin(p, fund_month) ==
    /\ Receive(p, "cs_find", [op |-> "createSnapshot", fund_month |-> fund_month])
    /\ UNCHANGED <<deposits, fund_settings, interest_brackets, interestTables, loanTables>>

CsFindUnique(p) ==
    /\ pc[p] = "cs_find"
    /\ IF SnapshotOf(req[p].fund_month) # {}
       THEN Respond(p, 400, "SnapshotExists")
       ELSE Goto(p, "cs_group", NoLoc)
    /\ UNCHANGED <<deposits, fund_settings, interest_brackets, interestTables, loanTables>>

CsGroupBy(p) ==
    /\ pc[p] = "cs_group"
    /\ Goto(p, "cs_create", [memberSnapshots |-> MemberUnits,
                             totalAmount |-> PoolTotal,
                             totalUnits |-> PoolTotal \div unit_amount])
    /\ UNCHANGED <<deposits, fund_settings, interest_brackets, interestTables, loanTables>>

\* monthly_pool_snapshot.create; fund_month is UNIQUE
CsCreate(p) ==
    /\ pc[p] = "cs_create"
    /\ IF SnapshotOf(req[p].fund_month) # {}
       THEN /\ Respond(p, 500, "Failed to create snapshot")
            /\ UNCHANGED monthly_pool_snapshot
       ELSE /\ monthly_pool_snapshot' = monthly_pool_snapshot \cup
                   {[fund_month |-> req[p].fund_month,
                     total_pool_amount |-> loc[p].totalAmount,
                     total_pool_units |-> loc[p].totalUnits,
                     cumulative_pool_units |-> loc[p].totalUnits,
                     member_snapshots |-> loc[p].memberSnapshots]}
            /\ Respond(p, 201, "none")
    /\ UNCHANGED <<fund_settings, interest_brackets, loanTables, deposits, monthly_interest, member_interest_shares,
                   emergency_fund, emergency_fund_transactions>>

\* ------------------------------- distributeInterest: POST /interest/entries
\* Math.round(x) of the quotient n / d, for n >= 0 and d > 0
RoundDiv(n, d) == (2 * n + d) \div (2 * d)

\* the share cut to whole paise instead of rounded
InterestShareTruncated(amount, units, totalUnits) == (amount * units) \div totalUnits

\* Math.round(ratePerUnit * units * 100) / 100, in paise
InterestShare(amount, units, totalUnits) == RoundDiv(amount * units, totalUnits)

\* the balance overwritten with the amount instead of raised by it
NewBalanceOverwritten(total_balance, amount) == amount

\* newBalance = Number(emergencyFund.total_balance) + Number(amount)
NewBalance(total_balance, amount) == total_balance + amount

\* interest entries created or admitted and not yet created
PendingEntries ==
    Cardinality({p \in Clients : pc[p] \in {"di_snapshot", "di_entry"}})

DiBegin(p, pool_source_month, earned_month, amount) ==
    /\ Len(monthly_interest) + PendingEntries < MaxInterestEntries
    /\ Receive(p, "di_snapshot", [op |-> "distributeInterest",
                                  pool_source_month |-> pool_source_month,
                                  earned_month |-> earned_month, amount |-> amount])
    /\ UNCHANGED <<deposits, fund_settings, interest_brackets, interestTables, loanTables>>

DiFindSnapshot(p) ==
    /\ pc[p] = "di_snapshot"
    /\ IF SnapshotOf(req[p].pool_source_month) = {}
       THEN Respond(p, 400, "SnapshotNotFound")
       ELSE LET snapshot == CHOOSE sn \in SnapshotOf(req[p].pool_source_month) : TRUE
            IN  IF snapshot.cumulative_pool_units = 0
                THEN Respond(p, 400, "Pool has zero units")
                ELSE Goto(p, "di_entry", [memberSnapshots |-> snapshot.member_snapshots,
                                          totalUnits |-> snapshot.cumulative_pool_units])
    /\ UNCHANGED <<deposits, fund_settings, interest_brackets, interestTables, loanTables>>

\* monthly_interest.create; amount CHECK (amount > 0)
DiCreateEntry(p) ==
    /\ pc[p] = "di_entry"
    /\ IF req[p].amount > 0
       THEN /\ monthly_interest' = Append(monthly_interest,
                   [earned_month |-> req[p].earned_month,
                    pool_source_month |-> req[p].pool_source_month,
                    amount |-> req[p].amount])
            /\ Goto(p, "di_shares", [memberSnapshots |-> loc[p].memberSnapshots,
                                     totalUnits |-> loc[p].totalUnits,
                                     interestEntry |-> Len(monthly_interest) + 1])
       ELSE /\ Respond(p, 500, "Failed to add interest")
            /\ UNCHANGED monthly_interest
    /\ UNCHANGED <<fund_settings, interest_brackets, loanTables, deposits, monthly_pool_snapshot, member_interest_shares,
                   emergency_fund, emergency_fund_transactions>>

\* member_interest_shares.createMany for the members with units > 0
DiCreateShares(p) ==
    /\ pc[p] = "di_shares"
    /\ member_interest_shares' = member_interest_shares \cup
           {[user_id |-> u, monthly_interest_id |-> loc[p].interestEntry,
             member_cumulative_units |-> loc[p].memberSnapshots[u],
             total_pool_units |-> loc[p].totalUnits,
             interest_share |-> InterestShare(req[p].amount, loc[p].memberSnapshots[u],
                                              loc[p].totalUnits)] :
              u \in {v \in DOMAIN loc[p].memberSnapshots : loc[p].memberSnapshots[v] > 0}}
    /\ Goto(p, "di_fund", [interestEntry |-> loc[p].interestEntry])
    /\ UNCHANGED <<fund_settings, interest_brackets, loanTables, deposits, monthly_pool_snapshot, monthly_interest,
                   emergency_fund, emergency_fund_transactions>>

\* emergency_fund.findFirst and newBalance
DiFindFund(p) ==
    /\ pc[p] = "di_fund"
    /\ Goto(p, "di_update", [interestEntry |-> loc[p].interestEntry,
                             emergencyFund |-> emergency_fund,
                             newBalance |-> NewBalance(emergency_fund.total_balance,
                                                       req[p].amount)])
    /\ UNCHANGED <<deposits, fund_settings, interest_brackets, interestTables, loanTables>>

\* emergency_fund.update({ total_balance: newBalance, ... })
DiUpdateFund(p) ==
    /\ pc[p] = "di_update"
    /\ emergency_fund' =
           [total_balance |-> loc[p].newBalance,
            last_interest_month |-> MaxNum(loc[p].emergencyFund.last_interest_month,
                                           req[p].earned_month)]
    /\ Goto(p, "di_tx", [interestEntry |-> loc[p].interestEntry,
                         newBalance |-> loc[p].newBalance])
    /\ UNCHANGED <<fund_settings, interest_brackets, loanTables, deposits, monthly_pool_snapshot, monthly_interest,
                   member_interest_shares, emergency_fund_transactions>>

\* emergency_fund_transactions.create and the 201 answer
DiCreateTransaction(p) ==
    /\ pc[p] = "di_tx"
    /\ emergency_fund_transactions' = Append(emergency_fund_transactions,
           [transaction_type |-> "interest_credit", amount |-> req[p].amount,
            monthly_interest_id |-> loc[p].interestEntry,
            balance_after |-> loc[p].newBalance])
    /\ Respond(p, 201, "none")
    /\ UNCHANGED <<fund_settings, interest_brackets, loanTables, deposits, monthly_pool_snapshot, monthly_interest,
                   member_interest_shares, emergency_fund>>

\* The statement the handler is about to run is rejected by the database (the
\* connection is lost, a foreign key no longer resolves): the catch answers
\* 500; the statements are not wrapped in a transaction, so what the earlier
\* ones wrote stays.
DiFail(p) ==
    /\ pc[p] \in {"di_snapshot", "di_entry", "di_shares", "di_fund", "di_update", "di_tx"}
    /\ Respond(p, 500, "Failed to add interest")
    /\ UNCHANGED <<deposits, fund_settings, interest_brackets, interestTables, loanTables>>

\* ------------------------------------------------ utils/interest.ts
max_pool_percentage == 40
max_active_loans == 2

\* new Date(): the model's clock stands still; dates are day numbers
Today == 0

\* setFullYear(getFullYear() + 3) and INTERVAL '3 years', in days
ThreeYears == 1095

\* the rows schema.sql seeds into interest_brackets: multipliers in
\* hundredths, rates in hundredths of a percent, max_multiplier Null for
\* "and above"
DefaultBrackets ==
    << [min_multiplier |-> 0,    max_multiplier |-> <<200>>,  interest_rate |-> 950,  is_active |-> TRUE],
       [min_multiplier |-> 200,  max_multiplier |-> <<500>>,  interest_rate |-> 1000, is_active |-> TRUE],
       [min_multiplier |-> 500,  max_multiplier |-> <<700>>,  interest_rate |-> 1050, is_active |-> TRUE],
       [min_multiplier |-> 700,  max_multiplier |-> <<900>>,  interest_rate |-> 1100, is_active |-> TRUE],
       [min_multiplier |-> 900,  max_multiplier |-> <<1100>>, interest_rate |-> 1150, is_active |-> TRUE],
       [min_multiplier |-> 1100, max_multiplier |-> Null,     interest_rate |-> 1200, is_active |-> TRUE] >>

ActiveBracketIds == {i \in 1..Len(interest_brackets) : interest_brackets[i].is_active}

ActiveBrackets == {interest_brackets[i] : i \in ActiveBracketIds}

\* getInterestRate with the lower bound of a bracket included in it
GetInterestRatesInclusive(num, den) ==
    LET matching == {b \in ActiveBrackets :
                        /\ b.min_multiplier * den <= 100 * num
                        /\ \/ b.max_multiplier = Null
                           \/ b.max_multiplier[1] * den >= 100 * num}
    IN  IF matching = {} THEN {1200} ELSE {b.interest_rate : b \in matching}

\* getInterestRate(multiplier) for multiplier = num / den (den > 0): the
\* rates findFirst may return, 12.0 when no bracket matches
GetInterestRates(num, den) ==
    LET matching == {b \in ActiveBrackets :
                        /\ b.min_multiplier * den < 100 * num
                        /\ \/ b.max_multiplier = Null
                           \/ b.max_multiplier[1] * den >= 100 * num}
    IN  IF matching = {} THEN {1200} ELSE {b.interest_rate : b \in matching}

\* findFirst({ is_active }, orderBy min_multiplier desc) and the cap taken
\* from it, in hundredths: the columns come back as Decimal objects, which
\* are truthy whatever their value, so only a missing bracket or a NULL
\* max_multiplier falls through; brackets that tie on min_multiplier may
\* come back in either order
MaxMultipliers ==
    IF ActiveBrackets = {} THEN {1100}
    ELSE {IF maxBracket.max_multiplier # Null
          THEN maxBracket.max_multiplier[1]
          ELSE maxBracket.min_multiplier :
             maxBracket \in {b \in ActiveBrackets :
                                \A c \in ActiveBrackets : c.min_multiplier <= b.min_multiplier}}

ActiveLoanIds(u) == {i \in 1..Len(loans) : loans[i].user_id = u /\ loans[i].status = "active"}

Outstanding(u) ==
    SumOver([i \in ActiveLoanIds(u) |-> loans[i].outstanding_principal], ActiveLoanIds(u))

\* maxEligible without the floor at zero
MaxEligibleUnclamped(totalDeposits, totalPool, outstanding, maxMultiplier) ==
    IF totalDeposits = 0 THEN 0
    ELSE MinNum(totalPool * max_pool_percentage, totalDeposits * maxMultiplier) - outstanding

\* maxEligible of getMemberEligibility, in paise; deposits are in rupees
MaxEligible(totalDeposits, totalPool, outstanding, maxMultiplier) ==
    IF totalDeposits = 0 THEN 0
    ELSE MaxNum(MinNum(totalPool * max_pool_percentage, totalDeposits * maxMultiplier)
                - outstanding, 0)

\* ------------------------------------------ requestLoan: POST /loans/request
MaxLoansReached(activeLoans, maxLoans) == activeLoans >= maxLoans

\* loans CONSTRAINT valid_timeline
ValidTimeline(disbursed_at, emi_start_date, maturity_date) ==
    /\ maturity_date <= disbursed_at + ThreeYears
    /\ emi_start_date = Null \/ emi_start_date[1] >= disbursed_at
    /\ emi_start_date = Null \/ maturity_date > emi_start_date[1]

PendingLoans == Cardinality({p \in Clients : req[p].op = "requestLoan"})

RlBegin(p, u, amount, emi_start_date) ==
    /\ Len(loans) + PendingLoans < MaxLoans
    /\ Receive(p, "rl_count", [op |-> "requestLoan", user_id |-> u, amount |-> amount,
                               emi_start_date |-> emi_start_date])
    /\ UNCHANGED <<deposits, fund_settings, interest_brackets, interestTables, loanTables>>

\* loans.count of the member's active loans against max_active_loans
RlCount(p) ==
    /\ pc[p] = "rl_count"
    /\ IF MaxLoansReached(Cardinality(ActiveLoanIds(req[p].user_id)), max_active_loans)
       THEN Respond(p, 400, "MaxLoansReached")
       ELSE Goto(p, "rl_deposits", NoLoc)
    /\ UNCHANGED <<deposits, fund_settings, interest_brackets, interestTables, loanTables>>

\* getMemberEligibility: deposits.aggregate of the member
RlUserDeposits(p) ==
    /\ pc[p] = "rl_deposits"
    /\ Goto(p, "rl_pool", [totalDeposits |-> UserTotal(req[p].user_id)])
    /\ UNCHANGED <<deposits, fund_settings, interest_brackets, interestTables, loanTables>>

\* getMemberEligibility: deposits.aggregate of the pool
RlPoolTotal(p) ==
    /\ pc[p] = "rl_pool"
    /\ Goto(p, "rl_outstanding", [totalDeposits |-> loc[p].totalDeposits,
                                  totalPool |-> PoolTotal])
    /\ UNCHANGED <<deposits, fund_settings, interest_brackets, interestTables, loanTables>>

\* the amount check of requestLoan on what getMemberEligibility returned
RlCheckEligibility(p, totalDeposits, totalPool, maxEligible) ==
    IF req[p].amount > maxEligible
    THEN Respond(p, 400, "ExceedsEligibility")
    ELSE Goto(p, "rl_rate", [totalDeposits |-> totalDeposits,
                             totalPool |-> totalPool,
                             maxEligible |-> maxEligible])

\* getMemberEligibility: loans.aggregate of the member's active loans; a
\* member without deposits gets maxEligible 0 before any bracket is read
RlOutstanding(p) ==
    /\ pc[p] = "rl_outstanding"
    /\ IF loc[p].totalDeposits = 0
       THEN RlCheckEligibility(p, 0, loc[p].totalPool, 0)
       ELSE Goto(p, "rl_bracket", [totalDeposits |-> loc[p].totalDeposits,
                                   totalPool |-> loc[p].totalPool,
                                   outstanding |-> Outstanding(req[p].user_id)])
    /\ UNCHANGED <<deposits, fund_settings, interest_brackets, interestTables, loanTables>>

\* getMemberEligibility: the top bracket, maxEligible, and the amount check
RlMaxBracket(p) ==
    /\ pc[p] = "rl_bracket"
    /\ \E maxMultiplier \in MaxMultipliers :
          RlCheckEligibility(p, loc[p].totalDeposits, loc[p].totalPool,
                             MaxEligible(loc[p].totalDeposits, loc[p].totalPool,
                                         loc[p].outstanding, maxMultiplier))
    /\ UNCHANGED <<deposits, fund_settings, interest_brackets, interestTables, loanTables>>

\* getInterestRate(amount / totalDeposits), or of 0 without deposits
RlRate(p) ==
    /\ pc[p] = "rl_rate"
    /\ \E interestRate \in
            IF loc[p].totalDeposits > 0
            THEN GetInterestRates(req[p].amount, 100 * loc[p].totalDeposits)
            ELSE GetInterestRates(0, 1) :
          Goto(p, "rl_create", [totalDeposits |-> loc[p].totalDeposits,
                                totalPool |-> loc[p].totalPool,
                                maxEligible |-> loc[p].maxEligible,
                                interestRate |-> interestRate])
    /\ UNCHANGED <<deposits, fund_settings, interest_brackets, interestTables, loanTables>>

\* loans.create: trg_enforce_loan_limit counts the member's active loans,
\* then the CHECK constraint is applied
RlCreate(p) ==
    /\ pc[p] = "rl_create"
    /\ LET disbursedAt == Today
           maturityDate == disbursedAt + ThreeYears
       IN  IF \/ Cardinality(ActiveLoanIds(req[p].user_id)) >= max_active_loans
              \/ ~ValidTimeline(disbursedAt, req[p].emi_start_date, maturityDate)
           THEN Respond(p, 500, "Failed to create loan")
           ELSE Goto(p, "rl_commit",
                    [row |-> [user_id |-> req[p].user_id,
                              principal_amount |-> req[p].amount,
                              interest_rate |-> loc[p].interestRate,
                              multiplier_at_disbursement |->
                                  IF loc[p].totalDeposits > 0
                                  THEN RoundDiv(req[p].amount, loc[p].totalDeposits)
                                  ELSE 0,
                              user_total_deposits_at_loan |-> loc[p].totalDeposits,
                              total_pool_at_loan |-> loc[p].totalPool,
                              max_eligible_at_loan |-> loc[p].maxEligible,
                              disbursed_at |-> disbursedAt,
                              emi_start_date |-> req[p].emi_start_date,
                              maturity_date |-> maturityDate,
                              pre_emi_interest_amount |-> 0,
                              outstanding_principal |-> req[p].amount,
                              total_interest_paid |-> 0,
                              completed_at |-> Null,
                              approved_by |-> Null,
                              status |-> "active"]])
    /\ UNCHANGED <<deposits, fund_settings, interest_brackets, interestTables, loanTables>>

\* the inserted loan becomes visible to the other connections
RlCommit(p) ==
    /\ pc[p] = "rl_commit"
    /\ loans' = Append(loans, loc[p].row)
    /\ Respond(p, 201, "none")
    /\ UNCHANGED <<deposits, fund_settings, interest_brackets, interestTables, pre_emi_interest, emi_schedule, payments>>

\* -------------------------------------- startInstallments: POST /:id/start-emi
\* ratePercent / 100 / 12 as the fraction k / 2400; every seeded rate is a
\* multiple of 0.50 percent
RateUnits(interest_rate) == interest_rate \div 50

MonthlyDen == 2400

\* Math.round(calculatePreEmiInterest(principal, rate, days) * 100) / 100 for
\* days a multiple of 30: principal * (1 + m)^(days / 30) - principal
PreEmiInterest(principal, interest_rate, days) ==
    LET k == RateUnits(interest_rate)
        n == IF days >= 0 THEN days \div 30 ELSE (-days) \div 30
        grown == Pow(MonthlyDen + k, n)
        base == Pow(MonthlyDen, n)
    IN  IF days >= 0 THEN MulDivRound(principal, grown - base, base)
        ELSE MulDivRound(-principal, grown - base, grown)

\* an instalment that covers the first month's interest and no principal
CalculateEMIInterestOnly(principal, interest_rate, months) ==
    MulDivRound(principal, RateUnits(interest_rate), MonthlyDen)

\* calculateEMI: P * m * (1 + m)^n / ((1 + m)^n - 1), rounded to paise
CalculateEMI(principal, interest_rate, months) ==
    LET k == RateUnits(interest_rate)
        grown == Pow(MonthlyDen + k, months)
        base == Pow(MonthlyDen, months)
    IN  MulDivRound(principal, k * grown, MonthlyDen * (grown - base))

RECURSIVE ScheduleFrom(_, _, _, _, _)
\* the loop of generateEMISchedule from instalment i on
ScheduleFrom(i, months, outstanding, emi, interest_rate) ==
    IF i > months THEN <<>>
    ELSE LET interestComponent == MulDivRound(outstanding, RateUnits(interest_rate), MonthlyDen)
             principalComponent == emi - interestComponent
             left == IF i = months THEN 0 ELSE outstanding - principalComponent
         IN  <<[emi_number |-> i, principal_component |-> principalComponent,
                interest_component |-> interestComponent, total_emi |-> emi,
                outstanding_after |-> left]>>
             \o ScheduleFrom(i + 1, months, outstanding - principalComponent, emi, interest_rate)

GenerateEMISchedule(principal, interest_rate, months) ==
    ScheduleFrom(1, months, principal, CalculateEMI(principal, interest_rate, months),
                 interest_rate)

PendingStarts == Cardinality({p \in Clients : pc[p] \in {"se_find", "se_charge"}})

SeBegin(p, id, emi_start_date, emi_months) ==
    /\ Len(pre_emi_interest) + PendingStarts < MaxStarts
    /\ Receive(p, "se_find", [op |-> "startInstallments", id |-> id,
                              emi_start_date |-> emi_start_date, emi_months |-> emi_months])
    /\ UNCHANGED <<deposits, fund_settings, interest_brackets, interestTables, loanTables>>

\* loans.findUnique, daysDiff and calculatePreEmiInterest
SeFindLoan(p) ==
    /\ pc[p] = "se_find"
    /\ IF req[p].id \notin 1..Len(loans)
       THEN Respond(p, 404, "Loan not found")
       ELSE LET loan == loans[req[p].id]
                daysDiff == req[p].emi_start_date - loan.disbursed_at
            IN  Goto(p, "se_charge",
                     [loan |-> loan, daysDiff |-> daysDiff,
                      preEmiInterest |-> PreEmiInterest(loan.principal_amount,
                                                        loan.interest_rate, daysDiff)])
    /\ UNCHANGED <<deposits, fund_settings, interest_brackets, interestTables, loanTables>>

\* pre_emi_interest.create
SeCreateCharge(p) ==
    /\ pc[p] = "se_charge"
    /\ pre_emi_interest' = Append(pre_emi_interest,
           [loan_id |-> req[p].id, days_count |-> loc[p].daysDiff,
            principal_amount |-> loc[p].loan.principal_amount,
            interest_rate |-> loc[p].loan.interest_rate,
            interest_amount |-> loc[p].preEmiInterest,
            is_paid |-> FALSE, paid_amount |-> Null])
    /\ Goto(p, "se_schedule", loc[p])
    /\ UNCHANGED <<deposits, fund_settings, interest_brackets, interestTables, loans, emi_schedule, payments>>

\* generateEMISchedule and emi_schedule.createMany; UNIQUE(loan_id, emi_number)
SeCreateSchedule(p) ==
    /\ pc[p] = "se_schedule"
    /\ LET schedule == GenerateEMISchedule(loc[p].loan.outstanding_principal,
                                           loc[p].loan.interest_rate, req[p].emi_months)
       IN  IF \E i \in 1..Len(emi_schedule) :
                  /\ emi_schedule[i].loan_id = req[p].id
                  /\ emi_schedule[i].emi_number <= req[p].emi_months
           THEN /\ Respond(p, 500, "Failed to start EMI")
                /\ UNCHANGED emi_schedule
           ELSE /\ emi_schedule' = emi_schedule \o
                       [i \in 1..Len(schedule) |->
                           [loan_id |-> req[p].id, emi_number |-> schedule[i].emi_number,
                            principal_component |-> schedule[i].principal_component,
                            interest_component |-> schedule[i].interest_component,
                            total_emi |-> schedule[i].total_emi,
                            outstanding_after |-> schedule[i].outstanding_after,
                            is_paid |-> FALSE, paid_amount |-> Null]]
                /\ Goto(p, "se_update", [preEmiInterest |-> loc[p].preEmiInterest])
    /\ UNCHANGED <<deposits, fund_settings, interest_brackets, interestTables, loans, pre_emi_interest, payments>>

\* loans.update({ emi_start_date, pre_emi_interest_amount }) under valid_timeline
SeUpdateLoan(p) ==
    /\ pc[p] = "se_update"
    /\ LET loan == loans[req[p].id]
       IN  IF ValidTimeline(loan.disbursed_at, <<req[p].emi_start_date>>, loan.maturity_date)
           THEN /\ loans' = [loans EXCEPT ![req[p].id].emi_start_date = <<req[p].emi_start_date>>,
                                          ![req[p].id].pre_emi_interest_amount =
                                              loc[p].preEmiInterest]
                /\ Respond(p, 200, "none")
           ELSE /\ Respond(p, 500, "Failed to start EMI")
                /\ UNCHANGED loans
    /\ UNCHANGED <<deposits, fund_settings, interest_brackets, interestTables, pre_emi_interest, emi_schedule, payments>>

\* ------------------------------------------------------ routes/payments.ts
\* the trigger setting the status on every payment: completed for a payment
\* of principal that settles the loan, active otherwise
CheckLoanCompletionReopening(loan, row) ==
    LET updated == [loan EXCEPT
                       !.outstanding_principal = @ - row.principal_component,
                       !.total_interest_paid = @ + row.interest_component]
    IN  IF row.principal_component > 0 /\ updated.outstanding_principal <= 0
        THEN [updated EXCEPT !.status = "completed", !.completed_at = <<Today>>]
        ELSE [updated EXCEPT !.status = "active"]

\* trg_check_loan_completion, AFTER INSERT ON payments: the loan row after it
CheckLoanCompletion(loan, row) ==
    LET updated == [loan EXCEPT
                       !.outstanding_principal = @ - row.principal_component,
                       !.total_interest_paid = @ + row.interest_component]
    IN  IF updated.outstanding_principal <= 0
        THEN [updated EXCEPT !.status = "completed", !.completed_at = <<Today>>]
        ELSE updated

\* payments.create: CHECK (amount > 0), the insert, and the trigger's update
\* of the loan, in one statement
CreatePayment(p, row, error) ==
    IF row.amount > 0
    THEN /\ payments' = Append(payments, row)
         /\ loans' = [loans EXCEPT ![row.loan_id] = CheckLoanCompletion(@, row)]
         /\ Goto(p, "pay_mark", loc[p])
    ELSE /\ Respond(p, 500, error)
         /\ UNCHANGED <<payments, loans>>

PendingPayments == Cardinality({p \in Clients : pc[p] \in {"pay_find", "pay_create"}})

PayBegin(p, body) ==
    /\ Len(payments) + PendingPayments < MaxPayments
    /\ Receive(p, "pay_find", body)
    /\ UNCHANGED <<deposits, fund_settings, interest_brackets, interestTables, loanTables>>

\* the loan update that ends a handler, and the completion update after it
CompleteIfSettled(p, updatedLoan) ==
    IF updatedLoan.outstanding_principal <= 0
    THEN Goto(p, "pay_complete", loc[p])
    ELSE Respond(p, 201, "none")

\* POST /payments/pre-emi/:preEmiId
PpBegin(p, preEmiId, amount) ==
    PayBegin(p, [op |-> "payPreEmi", id |-> preEmiId, amount |-> amount])

PpFind(p) ==
    /\ pc[p] = "pay_find" /\ req[p].op = "payPreEmi"
    /\ IF req[p].id \notin 1..Len(pre_emi_interest)
       THEN Respond(p, 404, "Pre-EMI interest not found")
       ELSE Goto(p, "pay_create", [loan_id |-> pre_emi_interest[req[p].id].loan_id])
    /\ UNCHANGED <<deposits, fund_settings, interest_brackets, interestTables, loanTables>>

PpCreatePayment(p) ==
    /\ pc[p] = "pay_create" /\ req[p].op = "payPreEmi"
    /\ CreatePayment(p, [loan_id |-> loc[p].loan_id, amount |-> req[p].amount,
                         principal_component |-> 0, interest_component |-> req[p].amount,
                         payment_type |-> "pre_emi_interest",
                         pre_emi_interest_id |-> <<req[p].id>>, emi_schedule_id |-> Null],
                     "Failed to record payment")
    /\ UNCHANGED <<deposits, fund_settings, interest_brackets, interestTables, pre_emi_interest, emi_schedule>>

PpUpdateCharge(p) ==
    /\ pc[p] = "pay_mark" /\ req[p].op = "payPreEmi"
    /\ pre_emi_interest' = [pre_emi_interest EXCEPT ![req[p].id].is_paid = TRUE,
                                                    ![req[p].id].paid_amount = <<req[p].amount>>]
    /\ Goto(p, "pay_loan", loc[p])
    /\ UNCHANGED <<deposits, fund_settings, interest_brackets, interestTables, loans, emi_schedule, payments>>

PpUpdateLoan(p) ==
    /\ pc[p] = "pay_loan" /\ req[p].op = "payPreEmi"
    /\ loans' = [loans EXCEPT ![loc[p].loan_id].total_interest_paid = @ + req[p].amount]
    /\ Respond(p, 201, "none")
    /\ UNCHANGED <<deposits, fund_settings, interest_brackets, interestTables, pre_emi_interest, emi_schedule, payments>>

\* POST /payments/emi/:emiId
PeBegin(p, emiId, amount) ==
    PayBegin(p, [op |-> "payEmi", id |-> emiId, amount |-> amount])

PeFind(p) ==
    /\ pc[p] = "pay_find" /\ req[p].op = "payEmi"
    /\ IF req[p].id \notin 1..Len(emi_schedule)
       THEN Respond(p, 404, "EMI not found")
       ELSE Goto(p, "pay_create", [emi |-> emi_schedule[req[p].id]])
    /\ UNCHANGED <<deposits, fund_settings, interest_brackets, interestTables, loanTables>>

PeCreatePayment(p) ==
    /\ pc[p] = "pay_create" /\ req[p].op = "payEmi"
    /\ CreatePayment(p, [loan_id |-> loc[p].emi.loan_id, amount |-> req[p].amount,
                         principal_component |-> loc[p].emi.principal_component,
                         interest_component |-> loc[p].emi.interest_component,
                         payment_type |-> "emi",
                         pre_emi_interest_id |-> Null, emi_schedule_id |-> <<req[p].id>>],
                     "Failed to record payment")
    /\ UNCHANGED <<deposits, fund_settings, interest_brackets, interestTables, pre_emi_interest, emi_schedule>>

PeUpdateEntry(p) ==
    /\ pc[p] = "pay_mark" /\ req[p].op = "payEmi"
    /\ emi_schedule' = [emi_schedule EXCEPT ![req[p].id].is_paid = TRUE,
                                            ![req[p].id].paid_amount = <<req[p].amount>>]
    /\ Goto(p, "pay_loan", loc[p])
    /\ UNCHANGED <<deposits, fund_settings, interest_brackets, interestTables, loans, pre_emi_interest, payments>>

PeUpdateLoan(p) ==
    /\ pc[p] = "pay_loan" /\ req[p].op = "payEmi"
    /\ LET updatedLoan == [loans[loc[p].emi.loan_id] EXCEPT
                              !.outstanding_principal = @ - loc[p].emi.principal_component,
                              !.total_interest_paid = @ + loc[p].emi.interest_component]
       IN  /\ loans' = [loans EXCEPT ![loc[p].emi.loan_id] = updatedLoan]
           /\ CompleteIfSettled(p, updatedLoan)
    /\ UNCHANGED <<deposits, fund_settings, interest_brackets, interestTables, pre_emi_interest, emi_schedule, payments>>

PeComplete(p) ==
    /\ pc[p] = "pay_complete" /\ req[p].op = "payEmi"
    /\ loans' = [loans EXCEPT ![loc[p].emi.loan_id].status = "completed",
                               ![loc[p].emi.loan_id].completed_at = <<Today>>]
    /\ Respond(p, 201, "none")
    /\ UNCHANGED <<deposits, fund_settings, interest_brackets, interestTables, pre_emi_interest, emi_schedule, payments>>

\* POST /payments/prepay/:loanId
PrBegin(p, loanId, amount) ==
    PayBegin(p, [op |-> "prepay", id |-> loanId, amount |-> amount])

ExceedsOutstanding(amount, outstanding_principal) == amount > outstanding_principal

PrFind(p) ==
    /\ pc[p] = "pay_find" /\ req[p].op = "prepay"
    /\ IF req[p].id \notin 1..Len(loans)
       THEN Respond(p, 404, "Loan not found")
       ELSE IF ExceedsOutstanding(req[p].amount, loans[req[p].id].outstanding_principal)
       THEN Respond(p, 400, "Amount exceeds outstanding principal")
       ELSE Goto(p, "pay_create", [loan_id |-> req[p].id])
    /\ UNCHANGED <<deposits, fund_settings, interest_brackets, interestTables, loanTables>>

PrCreatePayment(p) ==
    /\ pc[p] = "pay_create" /\ req[p].op = "prepay"
    /\ CreatePayment(p, [loan_id |-> req[p].id, amount |-> req[p].amount,
                         principal_component |-> req[p].amount, interest_component |-> 0,
                         payment_type |-> "prepayment",
                         pre_emi_interest_id |-> Null, emi_schedule_id |-> Null],
                     "Failed to record prepayment")
    /\ UNCHANGED <<deposits, fund_settings, interest_brackets, interestTables, pre_emi_interest, emi_schedule>>

\* prepayment has no schedule row to mark: create is followed by the update
PrUpdateLoan(p) ==
    /\ pc[p] = "pay_mark" /\ req[p].op = "prepay"
    /\ LET updatedLoan == [loans[req[p].id] EXCEPT
                              !.outstanding_principal = @ - req[p].amount]
       IN  /\ loans' = [loans EXCEPT ![req[p].id] = updatedLoan]
           /\ CompleteIfSettled(p, updatedLoan)
    /\ UNCHANGED <<deposits, fund_settings, interest_brackets, interestTables, pre_emi_interest, emi_schedule, payments>>

PrComplete(p) ==
    /\ pc[p] = "pay_complete" /\ req[p].op = "prepay"
    /\ loans' = [loans EXCEPT ![req[p].id].status = "completed",
                               ![req[p].id].completed_at = <<Today>>]
    /\ Respond(p, 201, "none")
    /\ UNCHANGED <<deposits, fund_settings, interest_brackets, interestTables, pre_emi_interest, emi_schedule, payments>>

\* ------------------------------------------------ approve: POST /:id/approve
ApBegin(p, id) ==
    /\ Receive(p, "ap_update", [op |-> "approve", id |-> id])
    /\ UNCHANGED <<deposits, fund_settings, interest_brackets, interestTables, loanTables>>

\* loans.update({ approved_by }): a missing row is caught as 500
ApUpdate(p) ==
    /\ pc[p] = "ap_update"
    /\ IF req[p].id \in 1..Len(loans)
       THEN /\ loans' = [loans EXCEPT ![req[p].id].approved_by = <<"admin">>]
            /\ Respond(p, 200, "none")
       ELSE /\ Respond(p, 500, "Failed to approve loan")
            /\ UNCHANGED loans
    /\ UNCHANGED <<deposits, fund_settings, interest_brackets, interestTables, pre_emi_interest, emi_schedule, payments>>

\* --------------------------------- eligibility: GET /loans/eligibility/:userId
\* res.json(body): the handler ends with status 200 and a body
Json(p, body) ==
    /\ pc' = [pc EXCEPT ![p] = "idle"]
    /\ resp' = [resp EXCEPT ![p] = [status |-> 200, error |-> "none", body |-> body]]
    /\ req' = [req EXCEPT ![p] = NoReq]
    /\ loc' = [loc EXCEPT ![p] = NoLoc]

ElBegin(p, u) ==
    /\ Receive(p, "el_count", [op |-> "eligibility", user_id |-> u])
    /\ UNCHANGED <<deposits, fund_settings, interest_brackets, interestTables, loanTables>>

ElCount(p) ==
    /\ pc[p] = "el_count"
    /\ IF MaxLoansReached(Cardinality(ActiveLoanIds(req[p].user_id)), max_active_loans)
       THEN Json(p, [eligible |-> FALSE, maxEligible |-> 0])
       ELSE Goto(p, "el_deposits", NoLoc)
    /\ UNCHANGED <<deposits, fund_settings, interest_brackets, interestTables, loanTables>>

ElUserDeposits(p) ==
    /\ pc[p] = "el_deposits"
    /\ Goto(p, "el_pool", [totalDeposits |-> UserTotal(req[p].user_id)])
    /\ UNCHANGED <<deposits, fund_settings, interest_brackets, interestTables, loanTables>>

ElPoolTotal(p) ==
    /\ pc[p] = "el_pool"
    /\ Goto(p, "el_outstanding", [totalDeposits |-> loc[p].totalDeposits,
                                  totalPool |-> PoolTotal])
    /\ UNCHANGED <<deposits, fund_settings, interest_brackets, interestTables, loanTables>>

\* res.json({ eligible: maxEligible > 0, ...eligibility })
ElReturn(p, totalDeposits, totalPool, outstanding, maxEligible, maxMultiplier) ==
    Json(p, [eligible |-> maxEligible > 0,
             totalDeposits |-> totalDeposits,
             totalPool |-> totalPool,
             outstanding |-> outstanding,
             maxEligible |-> maxEligible,
             maxMultiplier |-> maxMultiplier])

ElOutstanding(p) ==
    /\ pc[p] = "el_outstanding"
    /\ LET outstanding == Outstanding(req[p].user_id)
       IN  IF loc[p].totalDeposits = 0
           THEN ElReturn(p, 0, loc[p].totalPool, outstanding, 0, 0)
           ELSE Goto(p, "el_bracket", [totalDeposits |-> loc[p].totalDeposits,
                                       totalPool |-> loc[p].totalPool,
                                       outstanding |-> outstanding])
    /\ UNCHANGED <<deposits, fund_settings, interest_brackets, interestTables, loanTables>>

ElMaxBracket(p) ==
    /\ pc[p] = "el_bracket"
    /\ \E maxMultiplier \in MaxMultipliers :
          ElReturn(p, loc[p].totalDeposits, loc[p].totalPool, loc[p].outstanding,
                   MaxEligible(loc[p].totalDeposits, loc[p].totalPool,
                               loc[p].outstanding, maxMultiplier),
                   maxMultiplier)
    /\ UNCHANGED <<deposits, fund_settings, interest_brackets, interestTables, loanTables>>

\* --------------------------------------- admin: /admin/interest-brackets
\* interest_brackets CONSTRAINT valid_range
ValidRange(min_multiplier, max_multiplier) ==
    /\ min_multiplier >= 0
    /\ max_multiplier = Null \/ max_multiplier[1] > min_multiplier

\* POST /admin/interest-brackets
BcBegin(p, min_multiplier, max_multiplier, interest_rate) ==
    /\ Len(interest_brackets) < MaxBrackets
    /\ Receive(p, "bc_create", [op |-> "createBracket",
                                min_multiplier |-> min_multiplier,
                                max_multiplier |-> max_multiplier,
                                interest_rate |-> interest_rate])
    /\ UNCHANGED <<deposits, fund_settings, interest_brackets, interestTables, loanTables>>

\* interest_brackets.create: is_active takes its default, TRUE
BcCreate(p) ==
    /\ pc[p] = "bc_create"
    /\ IF ValidRange(req[p].min_multiplier, req[p].max_multiplier)
       THEN /\ interest_brackets' =
                   Append(interest_brackets,
                          [min_multiplier |-> req[p].min_multiplier,
                           max_multiplier |-> req[p].max_multiplier,
                           interest_rate |-> req[p].interest_rate,
                           is_active |-> TRUE])
            /\ Respond(p, 201, "none")
       ELSE /\ Respond(p, 500, "Failed to create bracket")
            /\ UNCHANGED interest_brackets
    /\ UNCHANGED <<fund_settings, deposits, interestTables, loanTables>>

\* a field the request body leaves out
Undefined == <<>>

\* Prisma's update data: an undefined field keeps the column's value
Patched(column, field) == IF field = Undefined THEN column ELSE field[1]

\* PUT /admin/interest-brackets/:id
BuBegin(p, id, data) ==
    /\ Receive(p, "bu_update", [op |-> "updateBracket", id |-> id, data |-> data])
    /\ UNCHANGED <<deposits, fund_settings, interest_brackets, interestTables, loanTables>>

\* interest_brackets.update: a missing row and a violated CHECK are both
\* caught as 500
BuUpdate(p) ==
    /\ pc[p] = "bu_update"
    /\ IF req[p].id \in 1..Len(interest_brackets)
       THEN LET old == interest_brackets[req[p].id]
                bracket == [min_multiplier |-> Patched(old.min_multiplier, req[p].data.min_multiplier),
                            max_multiplier |-> Patched(old.max_multiplier, req[p].data.max_multiplier),
                            interest_rate |-> Patched(old.interest_rate, req[p].data.interest_rate),
                            is_active |-> Patched(old.is_active, req[p].data.is_active)]
            IN  IF ValidRange(bracket.min_multiplier, bracket.max_multiplier)
                THEN /\ interest_brackets' = [interest_brackets EXCEPT ![req[p].id] = bracket]
                     /\ Respond(p, 200, "none")
                ELSE /\ Respond(p, 500, "Failed to update bracket")
                     /\ UNCHANGED interest_brackets
       ELSE /\ Respond(p, 500, "Failed to update bracket")
            /\ UNCHANGED interest_brackets
    /\ UNCHANGED <<fund_settings, deposits, interestTables, loanTables>>

\* ------------------------------------ routes/admin.ts: PUT /settings/:key
StBegin(p, key, value) ==
    /\ Receive(p, "st_update", [op |-> "updateSetting", key |-> key, value |-> value])
    /\ UNCHANGED <<fund_settings, deposits, interest_brackets, interestTables, loanTables>>

\* fund_settings.update: any key of the table, any value; a key the table
\* does not hold makes the update throw.
StUpdate(p) ==
    /\ pc[p] = "st_update"
    /\ IF req[p].key \in DOMAIN fund_settings
       THEN /\ fund_settings' = [fund_settings EXCEPT ![req[p].key] = req[p].value]
            /\ Respond(p, 200, "none")
       ELSE /\ Respond(p, 500, "Failed to update setting")
            /\ UNCHANGED fund_settings
    /\ UNCHANGED <<deposits, interest_brackets, interestTables, loanTables>>

\* ---------------------------------------------------------------- inputs
DepositAmounts == {-300, 300, 500, 900}
DepositMonths == {0, 1, 2, 3}
BulkBatches ==
    { <<[amount |-> 300, member_month |-> 1]>>,
      <<[amount |-> 900, member_month |-> 3], [amount |-> 300, member_month |-> 1]>>,
      <<[amount |-> 300, member_month |-> 2], [amount |-> 300, member_month |-> 1]>>,
      <<[amount |-> 500, member_month |-> 1]>>,
      <<[amount |-> -300, member_month |-> 1]>> }

RecordDeposit(p) ==
    \/ \E u \in Users, a \in DepositAmounts, m \in DepositMonths : RdBegin(p, u, a, m)
    \/ RdValidate(p)
    \/ RdAggregate(p)
    \/ RdCreate(p)
    \/ RdCommit(p)

BulkDeposits(p) ==
    \/ \E u \in Users, b \in BulkBatches : BulkBegin(p, u, b)
    \/ BulkValidate(p)
    \/ BulkAggregate(p)
    \/ BulkTransaction(p)
    \/ BulkCommit(p)

\* the statements of recordDeposit after the request has arrived
RdSteps(p) == RdValidate(p) \/ RdAggregate(p) \/ RdCreate(p) \/ RdCommit(p)

InterestAmounts == {0, 1000, 2500}

CreateSnapshot(p) ==
    \/ \E m \in FundMonths : CsBegin(p, m)
    \/ CsFindUnique(p)
    \/ CsGroupBy(p)
    \/ CsCreate(p)

DiSteps(p) ==
    \/ DiFindSnapshot(p)
    \/ DiCreateEntry(p)
    \/ DiCreateShares(p)
    \/ DiFindFund(p)
    \/ DiUpdateFund(p)
    \/ DiCreateTransaction(p)

DistributeInterest(p) ==
    \/ \E m, e \in FundMonths, a \in InterestAmounts : DiBegin(p, m, e, a)
    \/ DiSteps(p)

RlSteps(p) ==
    \/ RlCount(p)
    \/ RlUserDeposits(p)
    \/ RlPoolTotal(p)
    \/ RlOutstanding(p)
    \/ RlMaxBracket(p)
    \/ RlRate(p)
    \/ RlCreate(p)
    \/ RlCommit(p)

SeSteps(p) == SeFindLoan(p) \/ SeCreateCharge(p) \/ SeCreateSchedule(p) \/ SeUpdateLoan(p)

PpSteps(p) == PpFind(p) \/ PpCreatePayment(p) \/ PpUpdateCharge(p) \/ PpUpdateLoan(p)

PeSteps(p) ==
    \/ PeFind(p)
    \/ PeCreatePayment(p)
    \/ PeUpdateEntry(p)
    \/ PeUpdateLoan(p)
    \/ PeComplete(p)

PrSteps(p) == PrFind(p) \/ PrCreatePayment(p) \/ PrUpdateLoan(p) \/ PrComplete(p)

ElSteps(p) ==
    \/ ElCount(p)
    \/ ElUserDeposits(p)
    \/ ElPoolTotal(p)
    \/ ElOutstanding(p)
    \/ ElMaxBracket(p)

\* the bodies of PUT /admin/interest-brackets/:id that only set is_active
SetActive(is_active) ==
    [min_multiplier |-> Undefined, max_multiplier |-> Undefined,
     interest_rate |-> Undefined, is_active |-> <<is_active>>]

\* the active bracket created last
TopId == MaxOf(ActiveBracketIds)

Recalculate(p) ==
    \/ \E u \in Users : RcBegin(p, u)
    \/ RcFindMany(p)
    \/ RcUpdate(p)

\* The rows the schema seeds.  The handlers modelled here read
\* min_monthly_deposit, deposit_multiple, max_pool_percentage and
\* max_active_loans, and no statement of the backend reads loan_tenure_years
\* or emi_start_after_years.
DefaultSettings ==
    [min_monthly_deposit |-> min_monthly_deposit,
     deposit_multiple |-> deposit_multiple,
     max_pool_percentage |-> max_pool_percentage,
     max_active_loans |-> max_active_loans,
     loan_tenure_years |-> 3,
     emi_start_after_years |-> 2]

Init ==
    /\ deposits = <<>>
    /\ monthly_pool_snapshot = {}
    /\ monthly_interest = <<>>
    /\ member_interest_shares = {}
    /\ emergency_fund = [total_balance |-> 0, last_interest_month |-> 0]
    /\ emergency_fund_transactions = <<>>
    /\ loans = <<>>
    /\ pre_emi_interest = <<>>
    /\ emi_schedule = <<>>
    /\ payments = <<>>
    /\ interest_brackets = DefaultBrackets
    /\ fund_settings = DefaultSettings
    /\ pc = [p \in Clients |-> "idle"]
    /\ req = [p \in Clients |-> NoReq]
    /\ loc = [p \in Clients |-> NoLoc]
    /\ resp = [p \in Clients |-> NoResp]

\* the deposit ledger driven by one admin session at a time
NextLedger == RecordDeposit(1) \/ BulkDeposits(1) \/ Recalculate(1)

SpecLedger == Init /\ [][NextLedger]_vars

\* concurrent recordDeposit requests
NextDeposits == \E p \in Clients : RecordDeposit(p)

SpecDeposits == Init /\ [][NextDeposits]_vars

\* the pool of two members, snapshots and distributions, one request at a time
NextInterest ==
    \/ \E u \in Users : RdBegin(1, u, 300, 1)
    \/ RdSteps(1)
    \/ CreateSnapshot(1)
    \/ DistributeInterest(1)

SpecInterest == Init /\ [][NextInterest]_vars

\* one snapshot of a one-member pool, and distributions from it requested by
\* several sessions at once
NextInterestConcurrent ==
    \/ RdBegin(1, "u1", 300, 1)
    \/ RdSteps(1)
    \/ CsBegin(1, 1)
    \/ CsFindUnique(1) \/ CsGroupBy(1) \/ CsCreate(1)
    \/ \E p \in Clients :
          \/ \E a \in InterestAmounts \ {0} : DiBegin(p, 1, 1, a)
          \/ DiSteps(p)

SpecInterestConcurrent == Init /\ [][NextInterestConcurrent]_vars

\* one member with one deposit asks for loans from several sessions at once
NextLoans ==
    \/ (Len(deposits) = 0 /\ RdBegin(1, "u1", 300, 1))
    \/ RdSteps(1)
    \/ \E p \in Clients :
          \/ \E a \in {4000, 9000} : RlBegin(p, "u1", a, Null)
          \/ RlSteps(p)

SpecLoans == Init /\ [][NextLoans]_vars

\* one loan is set up by one session, then paid from several sessions at once
NextPayments ==
    \/ (Len(deposits) = 0 /\ RdBegin(1, "u1", 300, 1))
    \/ RdSteps(1)
    \/ (Len(loans) = 0 /\ RlBegin(1, "u1", 8000, Null))
    \/ RlSteps(1)
    \/ \E n \in 1..MaxEmiMonths : SeBegin(1, 1, Today + 30, n)
    \/ SeSteps(1)
    \/ \E p \in Clients :
          \/ PpBegin(p, 1, 63)
          \/ PpSteps(p)
          \/ \E e \in 1..MaxEmiMonths : PeBegin(p, e, 4048)
          \/ PeSteps(p)
          \/ \E a \in {5000, 9000} : PrBegin(p, 1, a)
          \/ PrSteps(p)

SpecPayments == Init /\ [][NextPayments]_vars

\* one admin session: two members deposit, the admin retires the brackets
\* from the top, switches the first one off and on and adds one, while the
\* first member borrows, prepays and has the eligibility computed
NextEligibility ==
    \/ (Len(deposits) = 0 /\ RdBegin(1, "u1", 300, 1))
    \/ (Len(deposits) = 1 /\ RdBegin(1, "u2", 9000, 1))
    \/ RdSteps(1)
    \/ (ActiveBracketIds \ {1} # {} /\ BuBegin(1, TopId, SetActive(FALSE)))
    \/ (\E is_active \in BOOLEAN : BuBegin(1, 1, SetActive(is_active)))
    \/ BuUpdate(1)
    \/ BcBegin(1, 100, <<300>>, 1000)
    \/ BcCreate(1)
    \/ (Len(loans) = 0 /\ \E a \in {60000, 60001} : RlBegin(1, "u1", a, Null))
    \/ RlSteps(1)
    \/ (Len(payments) = 0 /\ PrBegin(1, 1, 40000))
    \/ PrSteps(1)
    \/ (\E u \in Users : ElBegin(1, u))
    \/ ElSteps(1)

SpecEligibility == Init /\ [][NextEligibility]_vars

\* one session: the first member deposits once, the second never does, and
\* both ask for loans of a positive, a zero and a negative amount
NextBorrowers ==
    \/ (Len(deposits) = 0 /\ RdBegin(1, "u1", 300, 1))
    \/ RdSteps(1)
    \/ (\E u \in Users : \E a \in {-5000, 0, 4000} : RlBegin(1, u, a, Null))
    \/ RlSteps(1)

SpecBorrowers == Init /\ [][NextBorrowers]_vars

\* the life of one loan in one session: requested with or without a start
\* date, approved, started (possibly twice) and paid, with another loan
\* requested once it is completed, while deposits and interest
\* distributions go on
NextLifecycle ==
    \/ (Len(deposits) = Len(loans) /\ RdBegin(1, "u1", 300, Len(deposits) + 1))
    \/ RdSteps(1)
    \/ CsBegin(1, 1)
    \/ CsFindUnique(1)
    \/ CsGroupBy(1)
    \/ CsCreate(1)
    \/ (Len(monthly_interest) = 0 /\ DiBegin(1, 1, 1, 1000))
    \/ DiSteps(1)
    \/ (Len(loans) = 0 /\ \E e \in {Null, <<Today + 30>>} : RlBegin(1, "u1", 8000, e))
    \/ (Len(loans) = 1 /\ loans[1].status = "completed" /\ RlBegin(1, "u1", 8000, Null))
    \/ RlSteps(1)
    \/ ApBegin(1, 1)
    \/ ApUpdate(1)
    \/ SeBegin(1, 1, Today + 30, 2)
    \/ SeSteps(1)
    \/ PpBegin(1, 1, 63)
    \/ PpSteps(1)
    \/ (\E e \in 1..MaxEmiMonths : PeBegin(1, e, 4048))
    \/ PeSteps(1)
    \/ (\E a \in {5000, 9000} : PrBegin(1, 1, a))
    \/ PrSteps(1)

SpecLifecycle == Init /\ [][NextLifecycle]_vars

\* ================================================================ ledger
\* One member borrows once, while the administrator edits the tenure setting
\* beforehand, and the installments are started with a date before or after
\* the disbursement: one client, so each handler runs from its request to its
\* response without interleaving.
StartDates == {Today - 30, Today + 30}
TenureYears == {2, 3}

NextStart ==
    \/ (Len(deposits) = 0 /\ RdBegin(1, "u1", 300, 1))
    \/ RdSteps(1)
    \/ (Len(loans) = 0 /\ \E years \in TenureYears : StBegin(1, "loan_tenure_years", years))
    \/ StUpdate(1)
    \/ (Len(loans) = 0 /\ RlBegin(1, "u1", 8000, Null))
    \/ RlSteps(1)
    \/ (\E d \in StartDates : \E n \in 1..MaxEmiMonths : SeBegin(1, 1, d, n))
    \/ SeSteps(1)

SpecStart == Init /\ [][NextStart]_vars

\* Snapshots requested by several sessions at once, while one session keeps
\* depositing and distributes interest from the snapshot of month 1.
NextSnapshots ==
    \/ RdBegin(1, "u1", 300, Len(deposits) + 1)
    \/ RdSteps(1)
    \/ (Len(monthly_interest) = 0 /\ DiBegin(1, 1, 1, 1000))
    \/ DiSteps(1)
    \/ \E p \in Clients :
          \/ \E m \in FundMonths : CsBegin(p, m)
          \/ CsFindUnique(p)
          \/ CsGroupBy(p)
          \/ CsCreate(p)

SpecSnapshots == Init /\ [][NextSnapshots]_vars

\* Two members deposit 3000 and 6000 (10 and 20 units); the snapshot of a
\* month is taken before, between or after the deposits, and interest of
\* 10.00 or 300.00 is distributed from it.
DistributedAmounts == {1000, 30000}

NextDistribution ==
    \/ (Len(deposits) = 0 /\ RdBegin(1, "u1", 3000, 1))
    \/ (Len(deposits) = 1 /\ RdBegin(1, "u2", 6000, 1))
    \/ RdSteps(1)
    \/ (\E m \in FundMonths : CsBegin(1, m))
    \/ CsFindUnique(1) \/ CsGroupBy(1) \/ CsCreate(1)
    \/ (\E m \in FundMonths : \E a \in DistributedAmounts : DiBegin(1, m, 1, a))
    \/ DiSteps(1)

SpecDistribution == Init /\ [][NextDistribution]_vars

\* The same, with any statement of distributeInterest liable to be rejected.
NextDistributionFailure == NextDistribution \/ DiFail(1)

SpecDistributionFailure == Init /\ [][NextDistributionFailure]_vars

\* One loan of one of several sizes (hence rates), started with one or two
\* installments and repaid entry by entry, with no prepayment.
LoanAmounts == {8000, 100000, 250000}
EmiMonths == {1, 2}

NextRepayment ==
    \/ (Len(deposits) = 0 /\ RdBegin(1, "u1", 300, 1))
    \/ (Len(deposits) = 1 /\ RdBegin(1, "u2", 9000, 1))
    \/ RdSteps(1)
    \/ (Len(loans) = 0 /\ \E a \in LoanAmounts : RlBegin(1, "u1", a, Null))
    \/ RlSteps(1)
    \/ (\E n \in EmiMonths : SeBegin(1, 1, Today + 30, n))
    \/ SeSteps(1)
    \/ (\E e \in 1..Len(emi_schedule) : PeBegin(1, e, 4048))
    \/ PeSteps(1)

SpecRepayment == Init /\ [][NextRepayment]_vars

Quiescent == \A p \in Clients : pc[p] = "idle"

\* a request body that satisfies the documented input rules of recordDeposit
ValidDeposit(r) ==
    /\ r.amount > 0
    /\ r.amount % deposit_multiple = 0
    /\ r.member_month >= 1


\* orders of the positions of a list of rows that ascend by member_month
RowOrders(rows) ==
    {o \in Perms(1..Len(rows)) :
        \A k \in 1..(Len(o) - 1) : rows[o[k]].member_month <= rows[o[k + 1]].member_month}

\* the stored totals of the rows are the prefix sums of their amounts in order o
PrefixSumsIn(rows, o) ==
    \A k \in 1..Len(o) :
        rows[o[k]].cumulative_total = SumSeq([j \in 1..k |-> rows[o[j]].amount])

\* sum of a member's deposits up to and including the member-month of row i
MonthOrderTotal(i) ==
    LET S == {j \in DepositIds(deposits[i].user_id) :
                 deposits[j].member_month <= deposits[i].member_month}
    IN  SumOver([j \in S |-> deposits[j].amount], S)

\* C2: once two concurrent recordDeposit calls for one member have both
\* answered, the member's largest stored cumulative total is the sum of all
\* the member's deposit amounts, and no two rows of the member were computed
\* on the same prior sum.
C2_ConcurrentDepositsSerial ==
    Quiescent =>
        \A u \in Users :
            /\ DepositIds(u) # {} =>
                 MaxOf({deposits[i].cumulative_total : i \in DepositIds(u)}) = UserTotal(u)
            /\ \A i, j \in DepositIds(u) :
                 i # j => deposits[i].cumulative_total - deposits[i].amount
                          # deposits[j].cumulative_total - deposits[j].amount

\* C6: a recordDeposit with valid input writes nothing before it answers; it
\* answers BelowMinimum and leaves the ledger untouched exactly when the
\* member's prior sum plus the amount is below unit x member-month, and
\* otherwise appends one row whose cumulative total is prior sum + amount.
C6_MinimumRule ==
    [][\A p \in Clients :
          (req[p].op = "recordDeposit" /\ ValidDeposit(req[p])) =>
              LET prior == UserTotal(req[p].user_id) IN
              IF pc'[p] # "idle" THEN deposits' = deposits
              ELSE IF prior + req[p].amount < deposit_multiple * req[p].member_month
              THEN /\ resp'[p] = [status |-> 400, error |-> "BelowMinimum"]
                   /\ deposits' = deposits
              ELSE /\ resp'[p].status = 201
                   /\ deposits' = Append(deposits,
                          [user_id |-> req[p].user_id, amount |-> req[p].amount,
                           member_month |-> req[p].member_month,
                           cumulative_total |-> prior + req[p].amount])
      ]_vars

\* the example of the rule: prior sum 300, month 3, deposit 900, total 1200
C6_Witness ==
    \E i \in 1..Len(deposits) :
        /\ deposits[i].member_month = 3
        /\ deposits[i].amount = 900
        /\ deposits[i].cumulative_total = 1200
        /\ resp[1].status = 201

\* C7: a recordDeposit whose amount is not a positive multiple of the unit,
\* or whose member-month is below 1, is answered with a validation error
\* (status 400) and the ledger is left untouched.
C7_InvalidInputRejected ==
    [][\A p \in Clients :
          (req[p].op = "recordDeposit" /\ ~ValidDeposit(req[p]) /\ pc'[p] = "idle") =>
              /\ resp'[p].status = 400
              /\ deposits' = deposits
      ]_vars

\* C8: whenever no request is running, each member's rows can be listed in
\* ascending member-month so that the stored cumulative totals are the prefix
\* sums of the amounts (and so do not decrease).
C8_MonthOrderPrefixSums ==
    Quiescent =>
        \A u \in Users :
            \E o \in MonthOrders(DepositIds(u)) :
                \A k \in 1..Len(o) :
                    /\ deposits[o[k]].cumulative_total
                         = SumSeq([j \in 1..k |-> deposits[o[j]].amount])
                    /\ k > 1 => deposits[o[k - 1]].cumulative_total
                                  <= deposits[o[k]].cumulative_total

\* C9: whenever no request is running, every deposit row with member-month N
\* has a month-order cumulative total of at least unit x N.
C9_MinimumByMonth ==
    Quiescent =>
        \A i \in 1..Len(deposits) :
            MonthOrderTotal(i) >= deposit_multiple * deposits[i].member_month

\* C10: a recalculate run leaves the rows it read with the prefix sums of
\* their amounts in ascending member-month, and a run over rows whose totals
\* already are such prefix sums changes no total.
C10_RecalculateIdempotent ==
    [][\A p \in Clients :
          (pc[p] = "rc_update" /\ pc'[p] = "idle") =>
              LET rows == loc[p].deposits IN
              /\ \A k \in 1..Len(rows) :
                    deposits'[rows[k].id].cumulative_total = RunningTotals(rows, 0)[k]
              /\ (\E o \in RowOrders(rows) : PrefixSumsIn(rows, o)) =>
                    \A k \in 1..Len(rows) :
                        deposits'[rows[k].id].cumulative_total = rows[k].cumulative_total
      ]_vars

\* ================================================================= loans
\* C1: whatever way requestLoan calls of one member interleave, the member
\* never has more active loans than max_active_loans.
C1_ActiveLoansWithinLimit ==
    \A u \in Users : Cardinality(ActiveLoanIds(u)) <= max_active_loans

PaymentsOf(S) ==
    SumOver([i \in S |-> payments[i].principal_component], S)

InterestOf(S) ==
    SumOver([i \in S |-> payments[i].interest_component], S)

PaymentIds(l) == {i \in 1..Len(payments) : payments[i].loan_id = l}

\* C3: at every point, a payment row exists for a charge or a schedule
\* entry exactly when that charge or entry is marked paid, every loan's
\* outstanding principal and interest paid reflect exactly the payment rows
\* recorded against it, and the principal applied never exceeds the loan.
C3_PaymentAtomicWithLoan ==
    /\ \A c \in 1..Len(pre_emi_interest) :
          pre_emi_interest[c].is_paid
          <=> \E i \in 1..Len(payments) : payments[i].pre_emi_interest_id = <<c>>
    /\ \A e \in 1..Len(emi_schedule) :
          emi_schedule[e].is_paid
          <=> \E i \in 1..Len(payments) : payments[i].emi_schedule_id = <<e>>
    /\ \A l \in 1..Len(loans) :
          /\ loans[l].outstanding_principal
               = loans[l].principal_amount - PaymentsOf(PaymentIds(l))
          /\ loans[l].total_interest_paid = InterestOf(PaymentIds(l))
          /\ PaymentsOf({i \in PaymentIds(l) : payments[i].payment_type = "prepayment"})
               <= loans[l].principal_amount

\* ============================================================== interest
\* C4: with one distribution running at a time, whenever none is running the
\* k-th ledger transaction carries the k-th entry's amount and, as
\* balance_after, the sum of the first k entry amounts (each distribution
\* adds exactly its amount and appends exactly one transaction), and the
\* ledger balance is the sum of all entry amounts and the last balance_after.
C4_LedgerConservation ==
    Quiescent =>
        /\ Len(emergency_fund_transactions) = Len(monthly_interest)
        /\ \A k \in 1..Len(emergency_fund_transactions) :
              /\ emergency_fund_transactions[k].monthly_interest_id = k
              /\ emergency_fund_transactions[k].amount = monthly_interest[k].amount
              /\ emergency_fund_transactions[k].balance_after
                   = SumSeq([j \in 1..k |-> monthly_interest[j].amount])
        /\ emergency_fund.total_balance
             = SumSeq([j \in 1..Len(monthly_interest) |-> monthly_interest[j].amount])
        /\ emergency_fund_transactions # <<>> =>
              emergency_fund_transactions[Len(emergency_fund_transactions)].balance_after
                = emergency_fund.total_balance

\* two distributions, of 1000 and of 2500 paise, have both been answered
C4_Witness ==
    /\ Quiescent
    /\ Len(emergency_fund_transactions) = 2
    /\ emergency_fund.total_balance = 3500
    /\ resp[1].status = 201

\* C5: once concurrent distributeInterest calls have all answered, the ledger
\* balance is the sum of the amounts of all the distributions made.
C5_NoLostDistribution ==
    Quiescent =>
        emergency_fund.total_balance
          = SumSeq([j \in 1..Len(emergency_fund_transactions) |->
                       emergency_fund_transactions[j].amount])


\* the cap of getMemberEligibility on what a member may owe, in paise, read
\* from the tables as they stand
EligibilityCaps(u) ==
    {MinNum(PoolTotal * max_pool_percentage, UserTotal(u) * maxMultiplier) :
        maxMultiplier \in MaxMultipliers}

\* C11: requestLoan checks the amount against maxEligible at the moment of
\* creation, so right after every creation, under any interleaving of the
\* member's requests, the member's outstanding principal over the active
\* loans is at most min(totalPool * maxPoolPercentage,
\* totalDeposits * maxMultiplier).
C11_CreationWithinEligibility ==
    [][\A p \in Clients : \A u \in Users :
          (pc[p] = "rl_commit" /\ req[p].user_id = u /\ Len(loans') = Len(loans) + 1)
              => \E cap \in EligibilityCaps(u)' : Outstanding(u)' <= cap]_vars


\* ============================================================ eligibility
\* the eligibility of member u as documented, in paise, from the tables: 0
\* without deposits, else max(0, min(pool share, deposits x multiplier) -
\* outstanding of the active loans), the multiplier being the upper bound of
\* the active bracket with the highest min_multiplier, or its lower bound
\* when it has no upper bound
DocumentedEligibility(u) ==
    LET mine == {i \in 1..Len(deposits) : deposits[i].user_id = u}
        totalDeposits == SumOver([i \in mine |-> deposits[i].amount], mine)
        totalPool == SumSeq([i \in 1..Len(deposits) |-> deposits[i].amount])
        active == {i \in 1..Len(loans) : loans[i].user_id = u /\ loans[i].status = "active"}
        outstanding == SumOver([i \in active |-> loans[i].outstanding_principal], active)
        top == {b \in ActiveBrackets : \A c \in ActiveBrackets : c.min_multiplier <= b.min_multiplier}
    IN  IF totalDeposits = 0 THEN {0}
        ELSE {MaxNum(0, MinNum(totalPool * max_pool_percentage,
                               totalDeposits * (IF b.max_multiplier # Null
                                                THEN b.max_multiplier[1]
                                                ELSE b.min_multiplier))
                        - outstanding) : b \in top}

DocumentedRates(num, den) ==
    LET rows == {i \in 1..Len(interest_brackets) :
                    /\ interest_brackets[i].is_active
                    /\ interest_brackets[i].min_multiplier * den < 100 * num
                    /\ \/ interest_brackets[i].max_multiplier = Null
                       \/ 100 * num <= interest_brackets[i].max_multiplier[1] * den}
    IN  IF rows = {} THEN {1200} ELSE {interest_brackets[i].interest_rate : i \in rows}

\* C13: getInterestRate returns the rate of an active bracket whose range
\* (min, max] holds the multiplier, max unbounded when missing, and 12.0
\* when no active bracket does; a multiplier equal to a bracket's min goes
\* to the bracket below (with the seeded brackets 2.0 gives 9.5 and anything
\* above 2.0 gives 10); an inactive bracket is never selected.
C13_RateAsDocumented ==
    [][\A p \in Clients :
          (pc[p] = "rl_rate" /\ loc[p].totalDeposits > 0)
              => /\ pc'[p] = "rl_create"
                 /\ loc'[p].interestRate \in
                        DocumentedRates(req[p].amount, 100 * loc[p].totalDeposits)
                 /\ interest_brackets = DefaultBrackets
                        => loc'[p].interestRate =
                              IF req[p].amount = 2 * 100 * loc[p].totalDeposits
                              THEN 950 ELSE 1000]_vars

\* a loan taken at exactly twice the deposits while bracket (0, 2] is
\* inactive and bracket (2, 5] is active: no bracket holds 2.0, the rate is
\* the default
C13_Witness ==
    /\ pc[1] = "rl_create"
    /\ req[1].amount = 60000
    /\ loc[1].totalDeposits = 300
    /\ loc[1].interestRate = 1200
    /\ ~interest_brackets[1].is_active
    /\ interest_brackets[2].is_active


\* ranges (min, max] of two bracket rows have no multiplier in common
Disjoint(b, c) ==
    \/ b.max_multiplier # Null /\ b.max_multiplier[1] <= c.min_multiplier
    \/ c.max_multiplier # Null /\ c.max_multiplier[1] <= b.min_multiplier

\* C14: after any sequence of bracket creations and updates by the admin,
\* re-activations included, no two active brackets overlap, so every
\* multiplier resolves to at most one rate.
C14_ActiveBracketsDisjoint ==
    \A i \in ActiveBracketIds : \A j \in ActiveBracketIds \ {i} :
        Disjoint(interest_brackets[i], interest_brackets[j])


\* C15: a member whose deposits sum to 0 never obtains a loan: whatever the
\* amount, zero and negative included, requestLoan rejects the request and
\* creates no loan row, so the multiplier-0 fallback is never stored.
C15_NoLoanWithoutDeposits ==
    [][\A p \in Clients :
          (pc[p] = "rl_commit" /\ Len(loans') = Len(loans) + 1)
              => UserTotal(req[p].user_id) > 0]_vars


\* ============================================================ loan life
\* every recorded payment is of the given type
OnlyPayments(payment_type) ==
    \A i \in 1..Len(payments) : payments[i].payment_type = payment_type

\* C16: an installment payment marks its entry paid, takes the entry's
\* principal component off the loan's outstanding principal exactly once and
\* adds the entry's interest component to the interest paid exactly once,
\* whatever amount was paid: with only installment payments recorded and
\* none running, each loan stands at its principal less the principal
\* components of its payments, with their interest components as interest.
C16_InstallmentAppliedOnce ==
    (Quiescent /\ OnlyPayments("emi")) =>
        /\ \A i \in 1..Len(payments) : emi_schedule[payments[i].emi_schedule_id[1]].is_paid
        /\ \A l \in 1..Len(loans) :
              /\ loans[l].outstanding_principal
                   = loans[l].principal_amount - PaymentsOf(PaymentIds(l))
              /\ loans[l].total_interest_paid = InterestOf(PaymentIds(l))

\* C17: a prepayment above the outstanding principal fails with
\* ExceedsOutstanding and changes neither the loan nor the payment log; one
\* of at most the outstanding principal takes exactly its amount off the
\* outstanding principal, records one payment of type prepayment and marks
\* no entry or charge paid.
C17_PrepaymentExact ==
    [][\A p \in Clients :
          (req[p].op = "prepay" /\ pc[p] = "pay_find" /\ req[p].id \in 1..Len(loans))
              => IF req[p].amount > loans[req[p].id].outstanding_principal
                 THEN /\ resp'[p] = [status |-> 400, error |-> "Amount exceeds outstanding principal"]
                      /\ UNCHANGED <<loans, payments>>
                 ELSE pc'[p] = "pay_create"]_vars
    /\ [](\A i \in 1..Len(payments) :
            payments[i].payment_type = "prepayment"
                => /\ payments[i].principal_component = payments[i].amount
                   /\ payments[i].emi_schedule_id = Null
                   /\ payments[i].pre_emi_interest_id = Null)
    /\ []((Quiescent /\ OnlyPayments("prepayment")) =>
            /\ \A e \in 1..Len(emi_schedule) : ~emi_schedule[e].is_paid
            /\ \A c \in 1..Len(pre_emi_interest) : ~pre_emi_interest[c].is_paid
            /\ \A l \in 1..Len(loans) :
                  loans[l].outstanding_principal
                      = loans[l].principal_amount
                          - SumOver([i \in PaymentIds(l) |-> payments[i].amount], PaymentIds(l)))


\* the loan a payment request is recorded against
LoanOf(r) ==
    IF r.op = "payEmi" THEN emi_schedule[r.id].loan_id ELSE r.id

\* C18: whenever an installment payment or a prepayment has finished and
\* left the loan's outstanding principal at or below zero, the loan is
\* completed and its completion time is set; and no loan is completed while
\* its outstanding principal is above zero.
C18_CompletedIffSettled ==
    [][/\ \A p \in Clients :
             (/\ req[p].op \in {"payEmi", "prepay"}
              /\ pc'[p] = "idle"
              /\ resp'[p].status = 201
              /\ loans'[LoanOf(req[p])].outstanding_principal <= 0)
                 => /\ loans'[LoanOf(req[p])].status = "completed"
                    /\ loans'[LoanOf(req[p])].completed_at # Null
       /\ \A l \in 1..Len(loans') :
             loans'[l].status = "completed" => loans'[l].outstanding_principal <= 0]_vars

\* C19: completed is terminal: no operation (requestLoan, approve,
\* startInstallments, a payment of any kind, a deposit, a distribution)
\* takes a completed loan back to active or to defaulted.
C19_CompletedIsTerminal ==
    [][\A l \in 1..Len(loans) :
          loans[l].status = "completed" => loans'[l].status = "completed"]_vars

\* a loan completed by a prepayment, then approved, started and charged a
\* pre-installment interest payment, still completed
C19_Witness ==
    /\ Quiescent
    /\ Len(payments) = 2
    /\ payments[1].payment_type = "prepayment"
    /\ payments[2].payment_type = "pre_emi_interest"
    /\ loans[1].approved_by # Null
    /\ loans[1].emi_start_date # Null
    /\ Len(emi_schedule) > 0
    /\ loans[1].status = "completed"


ChargesOf(l) == {c \in 1..Len(pre_emi_interest) : pre_emi_interest[c].loan_id = l}

\* C20: startInstallments on a loan whose installment-start date is already
\* set, by an earlier start or by requestLoan, fails with AlreadyStarted and
\* creates nothing; so in every reachable state a loan has at most one
\* pre-installment charge and at most one batch of installment entries.
C20_StartOnlyOnce ==
    [][\A p \in Clients :
          (/\ pc[p] = "se_find"
           /\ req[p].id \in 1..Len(loans)
           /\ loans[req[p].id].emi_start_date # Null)
              => /\ pc'[p] = "idle"
                 /\ resp'[p].status = 400
                 /\ UNCHANGED <<pre_emi_interest, emi_schedule>>]_vars
    /\ [](\A l \in 1..Len(loans) :
            /\ Cardinality(ChargesOf(l)) <= 1
            /\ \A e, f \in 1..Len(emi_schedule) :
                  (/\ emi_schedule[e].loan_id = l
                   /\ emi_schedule[f].loan_id = l
                   /\ emi_schedule[e].emi_number = emi_schedule[f].emi_number) => e = f)

\* C21: startInstallments with a start date earlier than the loan's
\* disbursement fails (InvalidStart) and leaves the state unchanged: no
\* pre-installment charge and no installment entry is persisted and the
\* loan's installment start stays unset; so no charge ever has a negative
\* day count.
C21_InvalidStartRejected ==
    [][\A p \in Clients :
          (/\ pc[p] = "se_find"
           /\ req[p].id \in 1..Len(loans)
           /\ req[p].emi_start_date < loans[req[p].id].disbursed_at)
              => /\ pc'[p] = "idle"
                 /\ resp'[p].status >= 400
                 /\ UNCHANGED <<pre_emi_interest, emi_schedule, loans>>]_vars
    /\ [](\A c \in 1..Len(pre_emi_interest) : pre_emi_interest[c].days_count >= 0)

\* days in a number of years, as the three years of loans.ts are counted
YearsInDays(years) == years * (ThreeYears \div 3)

\* C22: a loan is created with maturity = disbursement + the tenure the
\* loan_tenure_years setting holds at that moment, and once its installment
\* start is set, disbursement <= installment start < maturity.
C22_TimelineFollowsTenure ==
    [][\A p \in Clients :
          (pc[p] = "rl_commit" /\ Len(loans') = Len(loans) + 1)
              => LET loan == loans'[Len(loans')]
                 IN  loan.maturity_date =
                         loan.disbursed_at + YearsInDays(fund_settings.loan_tenure_years)]_vars
    /\ [](\A l \in 1..Len(loans) :
              loans[l].emi_start_date # Null
                  => /\ loans[l].disbursed_at <= loans[l].emi_start_date[1]
                     /\ loans[l].emi_start_date[1] < loans[l].maturity_date)

\* the rows a step appends to emi_schedule
NewEntries == SubSeq(emi_schedule', Len(emi_schedule) + 1, Len(emi_schedule'))

\* C23: the schedule startInstallments generates for n installments has
\* exactly n entries numbered 1..n, its final entry leaves an outstanding of
\* exactly 0, and its principal components sum to the principal exactly.
C23_ScheduleSumsToPrincipal ==
    [][\A p \in Clients :
          (pc[p] = "se_schedule" /\ pc'[p] = "se_update")
              => /\ Len(NewEntries) = req[p].emi_months
                 /\ \A i \in 1..Len(NewEntries) : NewEntries[i].emi_number = i
                 /\ NewEntries[Len(NewEntries)].outstanding_after = 0
                 /\ SumSeq([i \in 1..Len(NewEntries) |-> NewEntries[i].principal_component])
                        = loc[p].loan.outstanding_principal]_vars

EntriesOf(l) == {e \in 1..Len(emi_schedule) : emi_schedule[e].loan_id = l}

\* C26: startInstallments is all-or-nothing: whenever no handler is running,
\* also after one has failed at any of its statements, a loan has a
\* pre-installment charge and installment entries exactly when its
\* installment start is set.
C26_StartAllOrNothing ==
    Quiescent =>
        \A l \in 1..Len(loans) :
            /\ (ChargesOf(l) # {}) = (loans[l].emi_start_date # Null)
            /\ (EntriesOf(l) # {}) = (loans[l].emi_start_date # Null)

\* C24: createSnapshot for a fund-month that already has a snapshot fails
\* (AlreadyExists when the handler looks it up, the unique fund_month when
\* it inserts) and leaves the table as it was; under every interleaving a
\* fund-month has at most one snapshot; and no step (deposit, distribution
\* or snapshot attempt) changes or removes a persisted snapshot.
C24_SnapshotImmutable ==
    [][/\ \A p \in Clients :
             (/\ pc[p] \in {"cs_find", "cs_create"}
              /\ pc'[p] # pc[p]
              /\ \E sn \in monthly_pool_snapshot : sn.fund_month = req[p].fund_month)
                 => /\ pc'[p] = "idle"
                    /\ resp'[p].status >= 400
                    /\ pc[p] = "cs_find" => resp'[p].error = "SnapshotExists"
                    /\ UNCHANGED monthly_pool_snapshot
       /\ monthly_pool_snapshot \subseteq monthly_pool_snapshot'
       /\ \A sn, tn \in monthly_pool_snapshot' :
             sn.fund_month = tn.fund_month => sn = tn]_vars

\* a second createSnapshot was refused after the pool had grown past the
\* snapshot's total and a distribution had been made from it
C24_Witness ==
    /\ \E p \in Clients : resp[p].error = "SnapshotExists"
    /\ \E sn \in monthly_pool_snapshot : sn.total_pool_amount < PoolTotal
    /\ Len(emergency_fund_transactions) > 0

\* the share rows a step adds
NewShares == member_interest_shares' \ member_interest_shares

\* C25: distributeInterest persists exactly one share for each member with
\* units in the snapshot of the pool-source month and none for a member with
\* no units or absent from it, each share being round(amount /
\* cumulative units * member units, 2); and it fails without writing
\* anything when the snapshot is missing or holds zero units.
C25_SharesFollowSnapshot ==
    [][\A p \in Clients :
          /\ pc[p] = "di_shares" =>
                \E sn \in monthly_pool_snapshot :
                   /\ sn.fund_month = req[p].pool_source_month
                   /\ \A s \in NewShares : s.monthly_interest_id = Len(monthly_interest)
                   /\ \A u \in Users :
                         LET mine == {s \in NewShares : s.user_id = u}
                         IN  IF u \in DOMAIN sn.member_snapshots /\ sn.member_snapshots[u] > 0
                             THEN /\ Cardinality(mine) = 1
                                  /\ \A s \in mine :
                                        s.interest_share =
                                            RoundDiv(req[p].amount * sn.member_snapshots[u],
                                                     sn.cumulative_pool_units)
                             ELSE mine = {}
          /\ (/\ pc[p] = "di_snapshot"
              /\ \A sn \in monthly_pool_snapshot :
                    sn.fund_month = req[p].pool_source_month => sn.cumulative_pool_units = 0)
                 => /\ pc'[p] = "idle"
                    /\ resp'[p].status = 400
                    /\ resp'[p].error = (IF \E sn \in monthly_pool_snapshot :
                                               sn.fund_month = req[p].pool_source_month
                                         THEN "Pool has zero units" ELSE "SnapshotNotFound")
                    /\ UNCHANGED interestTables]_vars

\* 300.00 distributed over 10 and 20 units: shares of 100.00 and 200.00
C25_Witness ==
    \E s, t \in member_interest_shares :
        /\ s.monthly_interest_id = t.monthly_interest_id
        /\ s.user_id = "u1" /\ s.member_cumulative_units = 10 /\ s.interest_share = 10000
        /\ t.user_id = "u2" /\ t.member_cumulative_units = 20 /\ t.interest_share = 20000

SharesOf(i) == {s \in member_interest_shares : s.monthly_interest_id = i}

TransactionsOf(i) ==
    {k \in 1..Len(emergency_fund_transactions) :
        emergency_fund_transactions[k].monthly_interest_id = i}

\* C27: distributeInterest is all-or-nothing: whenever no handler is running,
\* also after one has failed between two of its statements, every interest
\* entry has a share for each member with units in its snapshot and exactly
\* one ledger transaction, of the entry's amount, and the ledger balance
\* includes the amount of every entry.
C27_DistributionAllOrNothing ==
    Quiescent =>
        /\ \A i \in 1..Len(monthly_interest) :
              /\ \E sn \in monthly_pool_snapshot :
                    /\ sn.fund_month = monthly_interest[i].pool_source_month
                    /\ {s.user_id : s \in SharesOf(i)}
                          = {u \in DOMAIN sn.member_snapshots : sn.member_snapshots[u] > 0}
              /\ Cardinality(TransactionsOf(i)) = 1
              /\ \A k \in TransactionsOf(i) :
                    emergency_fund_transactions[k].amount = monthly_interest[i].amount
        /\ emergency_fund.total_balance
             = SumSeq([i \in 1..Len(monthly_interest) |-> monthly_interest[i].amount])

\* C28: every loan's outstanding principal is at least 0 in every state.
C28_OutstandingNonNegative ==
    \A l \in 1..Len(loans) : loans[l].outstanding_principal >= 0

\* C29: an entry or a charge is settled at most once: a payment of an entry
\* that was already paid when the handler read it takes nothing more off the
\* loan's outstanding principal and adds nothing more to its interest paid,
\* and a payment of a charge that is already paid adds no interest either.
C29_SettledAtMostOnce ==
    [][\A p \in Clients :
          /\ (/\ req[p].op = "payEmi"
              /\ pc[p] \in {"pay_create", "pay_loan"}
              /\ loc[p].emi.is_paid)
                 => LET l == loc[p].emi.loan_id
                    IN  /\ loans'[l].outstanding_principal = loans[l].outstanding_principal
                        /\ loans'[l].total_interest_paid = loans[l].total_interest_paid
          /\ (/\ req[p].op = "payPreEmi"
              /\ pc[p] = "pay_create"
              /\ pre_emi_interest[req[p].id].is_paid)
                 => loans'[loc[p].loan_id].total_interest_paid
                      = loans[loc[p].loan_id].total_interest_paid]_vars

\* the payment rows recorded against a schedule entry
PaymentsOfEntry(e) == {i \in 1..Len(payments) : payments[i].emi_schedule_id = <<e>>}

\* every entry of the loan's schedule has been paid exactly once, and the
\* loan has received no prepayment
RepaidOnce(l) ==
    /\ EntriesOf(l) # {}
    /\ \A e \in EntriesOf(l) :
          emi_schedule[e].is_paid /\ Cardinality(PaymentsOfEntry(e)) = 1
    /\ \A i \in PaymentIds(l) : payments[i].payment_type # "prepayment"

====
